---- MODULE Spec2Model ----
(***************************************************************************)
(* Model of the gist backup handler of Sub-Store,                          *)
(* backend/src/restful/index.js, function gistBackup (GET                  *)
(* /api/utils/backup?action=...).                                          *)
(*                                                                         *)
(* The handler is an async function: it runs synchronously up to its       *)
(* await on gist.upload / gist.download, and its continuation runs         *)
(* synchronously after the remote call has settled.  Several requests may  *)
(* be in flight; they interleave only at those awaits.                     *)
(***************************************************************************)
EXTENDS Integers, Sequences, FiniteSets, TLC

\* ---------------------------------------------------------------- bounds
MaxClock == 3
NumReq == 2
MaxCalls == 3

Reqs == 1..NumReq

\* ------------------------------------------------------------- constants
SchemaVersion == 2

NoToken == "none"
Actions == {"upload", "download", "sync"}

\* ------------------------------------------------------------ local store
\* The '#sub-store' document: the settings sub-record (gistToken, syncTime)
\* and the rest of the state (data, at some schema version).
StoreRec(tok, st, d, sv) ==
    [gistToken |-> tok, syncTime |-> st, data |-> d, schema |-> sv]

\* $.read(SETTINGS_KEY): the settings sub-record of the store
ReadSettings(c) ==
    [gistToken |-> c.gistToken, syncTime |-> c.syncTime]

\* $.write(settings, SETTINGS_KEY): replaces the settings sub-record only
WriteSettings(c, s) ==
    [c EXCEPT !.gistToken = s.gistToken, !.syncTime = s.syncTime]

\* JSON.stringify($.cache) when $.env.isNode, $.read('#sub-store') otherwise:
\* under the store's contract both runtime variants yield the serialized
\* document
Stringify(c) ==
    <<c.gistToken, c.syncTime, c.data, c.schema>>

\* $.write(content, '#sub-store'), and $.cache = JSON.parse(content) when
\* $.env.isNode: the store becomes the document's content
Parse(b) ==
    StoreRec(b[1], b[2], b[3], b[4])

\* migrate(): brings a store to the current schema version; no-op when it
\* already is there.
migrate(c) ==
    IF c.schema < SchemaVersion
    THEN [c EXCEPT !.schema = SchemaVersion]
    ELSE c

\* the remote gist holds no backup file yet
NoDoc == <<>>

VARIABLES
    cache,      \* the local state store
    gistDoc,    \* content of the backup file in the remote gist, or NoDoc
    clock,      \* the latest reading of new Date().getTime()
    pc,         \* per request: "idle", "uploading", "downloading", "done"
    action,     \* per request: req.query.action
    settings,   \* per request: the local `settings`
    updated,    \* per request: the local `updated`
    stamp,      \* per request: the timestamp line 131 assigned (0: none)
    content,    \* per request: the local `content`
    res,        \* per request: the response sent ("none" while pending)
    log,        \* per request: the effects performed, in order
    pre,        \* per request: store and remote when the handler was entered
    post,       \* per request: store and remote when the response was sent
    started,    \* per request: clock when the handler was entered
    alone,      \* per request: no other request in flight during this one
    calls       \* number of requests received so far

vars == <<cache, gistDoc, clock, pc, action, settings, updated, stamp,
          content, res, log, pre, post, started, alone, calls>>

NoSettings == [gistToken |-> NoToken, syncTime |-> 0]
Snapshot(c, g) == [cache |-> c, gist |-> g]

InFlight(q) == pc[q] \in {"uploading", "downloading"}

\* stores the service can be started with: current schema, never synced or
\* synced at clock 0
InitCaches ==
    { StoreRec(tok, 0, "d1", SchemaVersion) : tok \in {NoToken, "tokA"} }

\* backups another installation may have left in the gist: none; one of an
\* older schema, made with another token by a clock that is ahead; one of
\* the current schema without token, never synced
InitDocs ==
    {NoDoc} \cup
    { Stringify(StoreRec("tokB", MaxClock, "d2", 1)),
      Stringify(StoreRec(NoToken, 0, "d2", SchemaVersion)) }

Init ==
    /\ cache \in InitCaches
    /\ gistDoc \in InitDocs
    /\ clock = 1
    /\ pc = [q \in Reqs |-> "idle"]
    /\ action = [q \in Reqs |-> "sync"]
    /\ settings = [q \in Reqs |-> NoSettings]
    /\ updated = [q \in Reqs |-> 0]
    /\ stamp = [q \in Reqs |-> 0]
    /\ content = [q \in Reqs |-> NoDoc]
    /\ res = [q \in Reqs |-> "none"]
    /\ log = [q \in Reqs |-> <<>>]
    /\ pre = [q \in Reqs |-> Snapshot(cache, gistDoc)]
    /\ post = [q \in Reqs |-> Snapshot(cache, gistDoc)]
    /\ started = [q \in Reqs |-> 1]
    /\ alone = [q \in Reqs |-> TRUE]
    /\ calls = 0

\* ------------------------------------------------------------ bookkeeping
\* requests are numbered round-robin: a new request takes the first slot not
\* in flight, counting from the slot after the latest request's
Free(q) == pc[q] \in {"idle", "done"}
SlotAfter(k) == ((calls + k) % NumReq) + 1
NextSlot ==
    LET ks == {k \in 0..(NumReq - 1) : Free(SlotAfter(k))}
    IN  IF ks = {} THEN 0
        ELSE SlotAfter(CHOOSE k \in ks : \A j \in ks : k <= j)

\* a request enters the handler: its locals are fresh, and any request
\* already in flight is no longer alone
Enter(p, a) ==
    /\ pc[p] \in {"idle", "done"}
    /\ p = NextSlot
    /\ calls < MaxCalls
    /\ calls' = calls + 1
    /\ action' = [action EXCEPT ![p] = a]
    /\ pre' = [pre EXCEPT ![p] = Snapshot(cache, gistDoc)]
    /\ started' = [started EXCEPT ![p] = clock]
    /\ alone' = [q \in Reqs |->
                    IF q = p THEN \A r \in Reqs \ {p} : ~InFlight(r)
                    ELSE IF InFlight(q) THEN FALSE ELSE alone[q]]

\* the handler responds: success(res) or failed(res, ...)
Respond(p, r, c, g) ==
    /\ pc' = [pc EXCEPT ![p] = "done"]
    /\ res' = [res EXCEPT ![p] = r]
    /\ post' = [post EXCEPT ![p] = Snapshot(c, g)]


\* the credential check lets every request through
HasToken_Always(s) == TRUE

\* line 111: if (!gistToken)
HasToken(s) == s.gistToken # NoToken


\* the switch falls into the upload case for an unrecognised action
Branch_Fallthrough(a) == IF a = "download" THEN a ELSE "upload"

\* line 128: switch (action)
Branch(a) == IF a \in {"upload", "download"} THEN a ELSE "default"


\* the new syncTime is not stored
OptimisticWrite_NoStamp(c, now) ==
    LET s == ReadSettings(c)
    IN  [settings |-> s, cache |-> c, content |-> Stringify(c)]

\* the blob is read before the optimistic write
OptimisticWrite_StaleContent(c, now) ==
    LET s == [ReadSettings(c) EXCEPT !.syncTime = now]
    IN  [settings |-> s, cache |-> WriteSettings(c, s), content |-> Stringify(c)]

\* lines 131-135: the optimistic syncTime write, then the blob is read
OptimisticWrite(c, now) ==
    LET s == [ReadSettings(c) EXCEPT !.syncTime = now]
        c2 == WriteSettings(c, s)
    IN  [settings |-> s, cache |-> c2, content |-> Stringify(c2)]


\* the catch writes the settings back without resetting syncTime
Rollback_Skip(c, s, upd) ==
    [settings |-> s, cache |-> WriteSettings(c, s)]

\* the catch restores the syncTime field of the stored settings only
Rollback_SyncTimeOnly(c, s, upd) ==
    [settings |-> [s EXCEPT !.syncTime = upd],
     cache |-> [c EXCEPT !.syncTime = upd]]

\* lines 143-144: restore syncTime if upload failed
Rollback(c, s, upd) ==
    LET s2 == [s EXCEPT !.syncTime = upd]
    IN  [settings |-> s2, cache |-> WriteSettings(c, s2)]


\* the restore never calls migrate()
RestoreBackup_NoMigrate(blob, migOk) ==
    [cache |-> Parse(blob), log |-> <<"writeAll">>]

\* the restore keeps the local settings sub-record
RestoreBackup_KeepSettings(blob, migOk) ==
    LET c1 == WriteSettings(Parse(blob), ReadSettings(cache))
    IN  [cache |-> IF migOk THEN migrate(c1) ELSE c1,
         log |-> <<"writeAll", "migrate", IF migOk THEN "migrateOk" ELSE "migrateErr">>]

\* a migration that throws puts the previous store back
RestoreBackup_UndoOnFailure(blob, migOk) ==
    [cache |-> IF migOk THEN migrate(Parse(blob)) ELSE cache,
     log |-> <<"writeAll", "migrate", IF migOk THEN "migrateOk" ELSE "migrateErr">>]

\* lines 152-159: restore the store from the downloaded blob, then migrate;
\* migOk tells whether migrate() returns or throws
RestoreBackup(blob, migOk) ==
    LET c1 == Parse(blob)
    IN  [cache |-> IF migOk THEN migrate(c1) ELSE c1,
         log |-> <<"writeAll", "migrate", IF migOk THEN "migrateOk" ELSE "migrateErr">>]

\* line 131: new Date().getTime() -- time has passed since the latest
\* reading, or not
Later(t) == IF t < MaxClock THEN {t, t + 1} ELSE {t}

\* ---------------------------------------------------------------- actions
\* lines 110-118: no gistToken in the settings
NoTokenFails(p, a) ==
    /\ Enter(p, a)
    /\ ~HasToken(ReadSettings(cache))
    /\ Respond(p, "GIST_TOKEN_NOT_FOUND", cache, gistDoc)
    /\ settings' = [settings EXCEPT ![p] = NoSettings]
    /\ updated' = [updated EXCEPT ![p] = 0]
    /\ stamp' = [stamp EXCEPT ![p] = 0]
    /\ content' = [content EXCEPT ![p] = NoDoc]
    /\ log' = [log EXCEPT ![p] = <<"readSettings", "failed">>]
    /\ UNCHANGED <<cache, gistDoc, clock>>

\* lines 126-128, 162: the switch matches no case
UnknownAction(p, a) ==
    /\ Branch(a) = "default"
    /\ Enter(p, a)
    /\ HasToken(ReadSettings(cache))
    /\ Respond(p, "success", cache, gistDoc)
    /\ settings' = [settings EXCEPT ![p] = ReadSettings(cache)]
    /\ updated' = [updated EXCEPT ![p] = ReadSettings(cache).syncTime]
    /\ stamp' = [stamp EXCEPT ![p] = 0]
    /\ content' = [content EXCEPT ![p] = NoDoc]
    /\ log' = [log EXCEPT ![p] = <<"readSettings", "readSettings", "success">>]
    /\ UNCHANGED <<cache, gistDoc, clock>>

\* lines 126-138: the upload case up to the await on gist.upload
UploadStart(p, a) ==
    /\ Branch(a) = "upload"
    /\ Enter(p, a)
    /\ HasToken(ReadSettings(cache))
    /\ \E now \in Later(clock) :
        LET w == OptimisticWrite(cache, now)
        IN  /\ clock' = now
            /\ updated' = [updated EXCEPT ![p] = ReadSettings(cache).syncTime]
            /\ stamp' = [stamp EXCEPT ![p] = now]
            /\ settings' = [settings EXCEPT ![p] = w.settings]
            /\ cache' = w.cache
            /\ content' = [content EXCEPT ![p] = w.content]
    /\ pc' = [pc EXCEPT ![p] = "uploading"]
    /\ log' = [log EXCEPT ![p] = <<"readSettings", "readSettings",
                                   "writeSettings", "readAll", "uploadCall">>]
    /\ res' = [res EXCEPT ![p] = "none"]
    /\ UNCHANGED <<gistDoc, post>>

\* lines 131-135, 163-171: reading or serializing the blob throws after the
\* optimistic write; the outer catch answers, the inner catch is not entered
UploadReadFails(p, a) ==
    /\ Branch(a) = "upload"
    /\ Enter(p, a)
    /\ HasToken(ReadSettings(cache))
    /\ \E now \in Later(clock) :
        LET w == OptimisticWrite(cache, now)
        IN  /\ clock' = now
            /\ updated' = [updated EXCEPT ![p] = ReadSettings(cache).syncTime]
            /\ stamp' = [stamp EXCEPT ![p] = now]
            /\ settings' = [settings EXCEPT ![p] = w.settings]
            /\ cache' = w.cache
            /\ Respond(p, "BACKUP_FAILED", w.cache, gistDoc)
    /\ content' = [content EXCEPT ![p] = NoDoc]
    /\ log' = [log EXCEPT ![p] = <<"readSettings", "readSettings",
                                   "writeSettings", "readAllErr", "failed">>]
    /\ UNCHANGED <<gistDoc>>

\* lines 138-147, 162: gist.upload resolves
UploadResolved(p) ==
    /\ pc[p] = "uploading"
    /\ gistDoc' = content[p]
    /\ Respond(p, "success", cache, content[p])
    /\ log' = [log EXCEPT ![p] = @ \o <<"uploadOk", "success">>]
    /\ UNCHANGED <<cache, clock, action, settings, updated, content, pre,
                   started, alone, calls, stamp>>

\* the inner catch rolls back but does not rethrow: the failure is answered
\* as a success
UploadRejected_Swallow(p) ==
    /\ pc[p] = "uploading"
    /\ LET r == Rollback(cache, settings[p], updated[p])
       IN  /\ settings' = [settings EXCEPT ![p] = r.settings]
           /\ cache' = r.cache
           /\ Respond(p, "success", r.cache, gistDoc)
    /\ log' = [log EXCEPT ![p] = @ \o <<"uploadErr", "writeSettings", "success">>]
    /\ UNCHANGED <<gistDoc, clock, action, updated, content, pre, started,
                   alone, calls, stamp>>

\* the inner catch rolls back and the handler returns without answering
UploadRejected_NoResponse(p) ==
    /\ pc[p] = "uploading"
    /\ LET r == Rollback(cache, settings[p], updated[p])
       IN  /\ settings' = [settings EXCEPT ![p] = r.settings]
           /\ cache' = r.cache
    /\ pc' = [pc EXCEPT ![p] = "idle"]
    /\ log' = [log EXCEPT ![p] = @ \o <<"uploadErr", "writeSettings">>]
    /\ UNCHANGED <<gistDoc, clock, action, updated, content, res, pre, post,
                   started, alone, calls, stamp>>

\* the inner catch calls gist.upload again instead of giving up
UploadRejected_Retry(p) ==
    /\ pc[p] = "uploading"
    /\ Len(log[p]) <= 5
    /\ log' = [log EXCEPT ![p] = @ \o <<"uploadErr", "uploadCall">>]
    /\ UNCHANGED <<cache, gistDoc, clock, pc, action, settings, updated,
                   content, res, pre, post, started, alone, calls, stamp>>

\* lines 141-146, 163-171: gist.upload rejects
UploadRejected(p) ==
    /\ pc[p] = "uploading"
    /\ LET r == Rollback(cache, settings[p], updated[p])
       IN  /\ settings' = [settings EXCEPT ![p] = r.settings]
           /\ cache' = r.cache
           /\ Respond(p, "BACKUP_FAILED", r.cache, gistDoc)
    /\ log' = [log EXCEPT ![p] = @ \o <<"uploadErr", "writeSettings", "failed">>]
    /\ UNCHANGED <<gistDoc, clock, action, updated, content, pre, started,
                   alone, calls, stamp>>

\* lines 126-128, 149-150: the download case up to the await on gist.download
DownloadStart(p, a) ==
    /\ Branch(a) = "download"
    /\ Enter(p, a)
    /\ HasToken(ReadSettings(cache))
    /\ settings' = [settings EXCEPT ![p] = ReadSettings(cache)]
    /\ updated' = [updated EXCEPT ![p] = ReadSettings(cache).syncTime]
    /\ stamp' = [stamp EXCEPT ![p] = 0]
    /\ content' = [content EXCEPT ![p] = NoDoc]
    /\ pc' = [pc EXCEPT ![p] = "downloading"]
    /\ log' = [log EXCEPT ![p] = <<"readSettings", "readSettings",
                                   "downloadCall">>]
    /\ res' = [res EXCEPT ![p] = "none"]
    /\ UNCHANGED <<cache, gistDoc, clock, post>>


\* a failed download writes the settings back as a failed upload does
DownloadRejected_Rollback(p) ==
    /\ pc[p] = "downloading"
    /\ LET r == Rollback(cache, settings[p], updated[p])
       IN  /\ cache' = r.cache
           /\ Respond(p, "BACKUP_FAILED", r.cache, gistDoc)
    /\ log' = [log EXCEPT ![p] = @ \o <<"downloadErr", "writeSettings", "failed">>]
    /\ UNCHANGED <<gistDoc, clock, action, settings, updated, content,
                   pre, started, alone, calls, stamp>>

\* lines 150, 163-171: gist.download rejects (network failure, or the gist
\* holds no backup file)
DownloadRejected(p) ==
    /\ pc[p] = "downloading"
    /\ Respond(p, "BACKUP_FAILED", cache, gistDoc)
    /\ log' = [log EXCEPT ![p] = @ \o <<"downloadErr", "failed">>]
    /\ UNCHANGED <<cache, gistDoc, clock, action, settings, updated, content,
                   pre, started, alone, calls, stamp>>

\* lines 150-162: gist.download resolves, the store is overwritten and
\* migrated
DownloadResolved(p) ==
    /\ pc[p] = "downloading"
    /\ gistDoc # NoDoc
    /\ LET r == RestoreBackup(gistDoc, TRUE)
       IN  /\ content' = [content EXCEPT ![p] = gistDoc]
           /\ cache' = r.cache
           /\ Respond(p, "success", r.cache, gistDoc)
           /\ log' = [log EXCEPT ![p] = @ \o <<"downloadOk">> \o r.log
                                          \o <<"success">>]
    /\ UNCHANGED <<gistDoc, clock, action, settings, updated, pre, started,
                   alone, calls, stamp>>

\* lines 150-159, 163-171: gist.download resolves, the store is overwritten,
\* migrate() throws (it has work to do only on a blob of an older schema)
DownloadMigrateFails(p) ==
    /\ pc[p] = "downloading"
    /\ gistDoc # NoDoc
    /\ Parse(gistDoc).schema < SchemaVersion
    /\ LET r == RestoreBackup(gistDoc, FALSE)
       IN  /\ content' = [content EXCEPT ![p] = gistDoc]
           /\ cache' = r.cache
           /\ Respond(p, "BACKUP_FAILED", r.cache, gistDoc)
           /\ log' = [log EXCEPT ![p] = @ \o <<"downloadOk">> \o r.log
                                          \o <<"failed">>]
    /\ UNCHANGED <<gistDoc, clock, action, settings, updated, pre, started,
                   alone, calls, stamp>>

Next ==
    \/ \E p \in Reqs, a \in Actions : NoTokenFails(p, a)
    \/ \E p \in Reqs, a \in Actions : UnknownAction(p, a)
    \/ \E p \in Reqs, a \in Actions : UploadStart(p, a)
    \/ \E p \in Reqs, a \in Actions : UploadReadFails(p, a)
    \/ \E p \in Reqs : UploadResolved(p)
    \/ \E p \in Reqs : UploadRejected(p)
    \/ \E p \in Reqs, a \in Actions : DownloadStart(p, a)
    \/ \E p \in Reqs : DownloadRejected(p)
    \/ \E p \in Reqs : DownloadResolved(p)
    \/ \E p \in Reqs : DownloadMigrateFails(p)

Spec == Init /\ [][Next]_vars

\* lines 138, 150: the await ends -- a remote call that has begun settles,
\* and the handler's continuation runs
Settles(p) ==
    \/ UploadResolved(p)
    \/ UploadRejected(p)
    \/ DownloadRejected(p)
    \/ DownloadResolved(p)
    \/ DownloadMigrateFails(p)

\* every remote call that has begun eventually returns
FairSpec == Spec /\ \A p \in Reqs : WF_vars(Settles(p))

\* ------------------------------------------------------------- properties
Done(p) == pc[p] = "done"
Has(p, e) == \E i \in DOMAIN log[p] : log[p][i] = e
Count(p, e) == Cardinality({i \in DOMAIN log[p] : log[p][i] = e})
Precedes(p, e, f) ==
    \A j \in DOMAIN log[p] : log[p][j] = f =>
        \E i \in DOMAIN log[p] : i < j /\ log[p][i] = e

\* store writes, remote calls and migrations
Effects == {"writeSettings", "writeAll", "migrate", "uploadCall", "downloadCall"}
NoEffects(p) == \A i \in DOMAIN log[p] : log[p][i] \notin Effects

\* C1 -- Rollback: an upload (credential present, no other request in
\* flight) whose gist.upload call fails answers BACKUP_FAILED and leaves
\* syncTime at the value it had when the request came in.
C1_Rollback ==
    \A p \in Reqs :
        (Done(p) /\ action[p] = "upload" /\ Has(p, "uploadErr") /\ alone[p])
        => /\ res[p] = "BACKUP_FAILED"
           /\ post[p].cache.syncTime = pre[p].cache.syncTime

C1_Witness ==
    \E p \in Reqs :
        /\ Done(p) /\ action[p] = "upload" /\ Has(p, "uploadErr") /\ alone[p]
        /\ pre[p].cache.syncTime < started[p]

\* C2 -- after an upload attempt (no other request in flight) that ends in
\* failure, whichever step failed, syncTime is the value it had before the
\* attempt; after one that ends in success it is the attempt's timestamp.
C2_NoIntermediateSyncTime ==
    \A p \in Reqs :
        (Done(p) /\ action[p] = "upload" /\ alone[p]
            /\ pre[p].cache.gistToken # NoToken)
        => IF res[p] = "success"
           THEN post[p].cache.syncTime = settings[p].syncTime
           ELSE post[p].cache.syncTime = pre[p].cache.syncTime

\* C3 (as stated) -- a successful upload leaves syncTime >= the request's
\* start time and strictly greater than its previous value, whatever that
\* previous value was.
C3_StrictlyGreater ==
    \A p \in Reqs :
        (Done(p) /\ action[p] = "upload" /\ res[p] = "success" /\ alone[p])
        => /\ post[p].cache.syncTime >= started[p]
           /\ post[p].cache.syncTime > pre[p].cache.syncTime

\* C3 (amended) -- a successful upload (no other request in flight) leaves
\* syncTime at the clock reading of the request, which is >= its start
\* time; it is strictly greater than the previous value when that value is
\* earlier than the start time.
C3_Commit ==
    \A p \in Reqs :
        (Done(p) /\ action[p] = "upload" /\ res[p] = "success" /\ alone[p])
        => /\ post[p].cache.syncTime >= started[p]
           /\ post[p].cache.syncTime = settings[p].syncTime
           /\ (pre[p].cache.syncTime < started[p]
                 => post[p].cache.syncTime > pre[p].cache.syncTime)

C3_Witness ==
    \E p \in Reqs :
        /\ Done(p) /\ action[p] = "upload" /\ res[p] = "success" /\ alone[p]
        /\ pre[p].cache.syncTime < started[p]
        /\ post[p].cache.syncTime > started[p]

\* C4 -- Credential gate: with no gistToken in the settings an upload and a
\* download answer GIST_TOKEN_NOT_FOUND, write nothing to the store, call
\* neither the gist nor the migration, and leave store and gist as they were.
C4_CredentialGate ==
    \A p \in Reqs :
        (Done(p) /\ action[p] \in {"upload", "download"}
            /\ pre[p].cache.gistToken = NoToken)
        => /\ res[p] = "GIST_TOKEN_NOT_FOUND"
           /\ NoEffects(p)
           /\ post[p] = pre[p]

C4_Witness ==
    /\ \E p \in Reqs :
        /\ Done(p) /\ action[p] = "upload"
        /\ pre[p].cache.gistToken = NoToken
    /\ \E p \in Reqs :
        /\ Done(p) /\ action[p] = "download"
        /\ pre[p].cache.gistToken = NoToken

\* C5 (as stated) -- a request with an action outside {upload, download}
\* answers success and has no effect, in every configuration.
C5_UnknownAlwaysSuccess ==
    \A p \in Reqs :
        (Done(p) /\ action[p] \notin {"upload", "download"})
        => /\ res[p] = "success"
           /\ NoEffects(p)
           /\ post[p] = pre[p]

\* C5 (amended) -- a request with an action outside {upload, download} has
\* no effect; it answers success when a gistToken is configured and
\* GIST_TOKEN_NOT_FOUND when none is.
C5_UnknownNoOp ==
    \A p \in Reqs :
        (Done(p) /\ action[p] \notin {"upload", "download"})
        => /\ res[p] = IF pre[p].cache.gistToken # NoToken
                       THEN "success" ELSE "GIST_TOKEN_NOT_FOUND"
           /\ NoEffects(p)
           /\ post[p] = pre[p]

C5_Witness ==
    /\ \E p \in Reqs :
        /\ Done(p) /\ action[p] = "sync" /\ res[p] = "success"
    /\ \E p \in Reqs :
        /\ Done(p) /\ action[p] = "sync" /\ res[p] = "GIST_TOKEN_NOT_FOUND"

StoreAtUpload(p) == WriteSettings(pre[p].cache, settings[p])

\* request q downloaded the very document request p uploaded
RoundTrip(p, q) ==
    /\ Done(p) /\ action[p] = "upload" /\ res[p] = "success"
    /\ Done(q) /\ action[q] = "download" /\ res[q] = "success"
    /\ content[q] = content[p]

\* C7 -- Round trip: a successful upload of blob B followed by a successful
\* download of the same document leaves the store equal to migrate(B), B
\* being the store as read at upload time, new syncTime included.
C7_RoundTrip ==
    \A p, q \in Reqs :
        RoundTrip(p, q)
        => /\ Parse(content[p]).syncTime = settings[p].syncTime
           /\ post[q].cache = migrate(Parse(content[p]))
           /\ post[q].cache = migrate(StoreAtUpload(p))

C7_Witness ==
    \E p, q \in Reqs :
        /\ RoundTrip(p, q)
        /\ StoreAtUpload(p).schema < SchemaVersion
        /\ pre[p].cache.syncTime # settings[p].syncTime

\* C8 -- a download that answers success after the gist returned blob D
\* leaves the store equal to migrate(D): settings sub-record, syncTime and
\* gistToken included, whatever the store held before.
C8_DownloadOverwrites ==
    \A p \in Reqs :
        (Done(p) /\ action[p] = "download" /\ res[p] = "success")
        => /\ content[p] = post[p].gist
           /\ post[p].cache = migrate(Parse(content[p]))
           /\ ReadSettings(post[p].cache) = ReadSettings(Parse(content[p]))

C8_Witness ==
    \E p \in Reqs :
        /\ Done(p) /\ action[p] = "download" /\ res[p] = "success"
        /\ Parse(content[p]).gistToken # pre[p].cache.gistToken
        /\ Parse(content[p]).syncTime # pre[p].cache.syncTime
        /\ Parse(content[p]).data # pre[p].cache.data
        /\ Parse(content[p]).schema < SchemaVersion

\* C9 -- a download whose gist.download call fails answers BACKUP_FAILED,
\* writes nothing (no rollback write either) and calls no migration; with no
\* other request in flight the store is the same before and after.
C9_DownloadFailureNoMutation ==
    \A p \in Reqs :
        (Done(p) /\ action[p] = "download" /\ Has(p, "downloadErr"))
        => /\ res[p] = "BACKUP_FAILED"
           /\ Count(p, "writeSettings") = 0
           /\ Count(p, "writeAll") = 0
           /\ Count(p, "migrate") = 0
           /\ (alone[p] => post[p] = pre[p])

C9_Witness ==
    \E p \in Reqs :
        /\ Done(p) /\ action[p] = "download" /\ Has(p, "downloadErr")
        /\ alone[p]
        /\ pre[p].gist # NoDoc

\* C10 -- after a successful upload (no other request in flight) the gist
\* document is the serialized store as it stands when the request answers,
\* so it carries the syncTime the settings hold.
C10_RemoteEqualsLocal ==
    \A p \in Reqs :
        (Done(p) /\ action[p] = "upload" /\ res[p] = "success" /\ alone[p])
        => /\ post[p].gist = Stringify(post[p].cache)
           /\ Parse(post[p].gist).syncTime = ReadSettings(post[p].cache).syncTime

C10_Witness ==
    \E p \in Reqs :
        /\ Done(p) /\ action[p] = "upload" /\ res[p] = "success" /\ alone[p]
        /\ pre[p].gist # post[p].gist
        /\ pre[p].cache.syncTime # post[p].cache.syncTime

\* errors raised inside the handler, and the responses it sends
Errors == {"readAllErr", "uploadErr", "downloadErr", "migrateErr"}
Responses == {"success", "failed"}
NumResponses(p) == Count(p, "success") + Count(p, "failed")
Raised(p) == \E i \in DOMAIN log[p] : log[p][i] \in Errors

\* C11 -- every request is answered exactly once, when it is done and not
\* before: GIST_TOKEN_NOT_FOUND exactly when no gistToken is configured,
\* BACKUP_FAILED exactly when an error was raised after the credential
\* check (upload, download, migration), success otherwise; no raised error
\* is answered as success.
C11_OneClassifiedResponse ==
    \A p \in Reqs :
        /\ ~Done(p) => NumResponses(p) = 0
        /\ Done(p) =>
            /\ NumResponses(p) = 1
            /\ log[p][Len(log[p])] \in Responses
            /\ (log[p][Len(log[p])] = "success") <=> (res[p] = "success")
            /\ res[p] \in {"success", "GIST_TOKEN_NOT_FOUND", "BACKUP_FAILED"}
            /\ (res[p] = "GIST_TOKEN_NOT_FOUND") <=> (pre[p].cache.gistToken = NoToken)
            /\ (res[p] = "BACKUP_FAILED") <=> Raised(p)
            /\ (res[p] = "success") <=>
                    (pre[p].cache.gistToken # NoToken /\ ~Raised(p))

C11_Witness ==
    /\ \E p \in Reqs : Done(p) /\ res[p] = "BACKUP_FAILED" /\ Has(p, "migrateErr")
    /\ \E p \in Reqs : Done(p) /\ res[p] = "BACKUP_FAILED" /\ Has(p, "uploadErr")

\* position of the first / last occurrence of an event in a request's log
\* (0: none)
First(p, e) ==
    IF Has(p, e)
    THEN CHOOSE i \in DOMAIN log[p] :
            log[p][i] = e /\ \A j \in DOMAIN log[p] : log[p][j] = e => i <= j
    ELSE 0
Last(p, e) ==
    IF Has(p, e)
    THEN CHOOSE i \in DOMAIN log[p] :
            log[p][i] = e /\ \A j \in DOMAIN log[p] : log[p][j] = e => j <= i
    ELSE 0

\* in every upload the optimistic settings write comes before the gist.upload
\* call, and after a rejected call the rollback write comes between the
\* rejection and the failure response and leaves the previous syncTime
UploadOrdering(p) ==
    /\ Has(p, "uploadCall") =>
        /\ First(p, "writeSettings") > 0
        /\ First(p, "writeSettings") < First(p, "uploadCall")
    /\ (Done(p) /\ Has(p, "uploadErr")) =>
        /\ First(p, "uploadErr") < Last(p, "writeSettings")
        /\ Last(p, "writeSettings") < First(p, "failed")
        /\ Count(p, "writeSettings") = 2
        /\ post[p].cache.syncTime = updated[p]

\* C12 (as stated) -- in every upload the settings write with the new
\* syncTime precedes the gist.upload call, so as long as the call is in
\* flight the settings hold the new timestamp; on failure the rollback
\* write precedes the failure response.
C12_NewStampWhileInFlight ==
    \A p \in Reqs :
        /\ UploadOrdering(p)
        /\ pc[p] = "uploading" => ReadSettings(cache).syncTime = stamp[p]

\* C12 (amended) -- in every upload the settings write with the new syncTime
\* precedes the gist.upload call, and on failure the rollback write
\* precedes the failure response; as long as the call is in flight and no
\* other request has been in flight with it, the settings hold the new
\* timestamp.
C12_UploadStepOrdering ==
    \A p \in Reqs :
        /\ UploadOrdering(p)
        /\ (pc[p] = "uploading" /\ alone[p])
            => ReadSettings(cache).syncTime = stamp[p]

C12_Witness ==
    /\ \E p \in Reqs :
        /\ pc[p] = "uploading" /\ alone[p]
        /\ stamp[p] # pre[p].cache.syncTime
    /\ \E p \in Reqs :
        /\ Done(p) /\ Has(p, "uploadErr")
        /\ stamp[p] # updated[p]

\* an upload answered after its gist.upload call was rejected
FailedUpload(p) == Done(p) /\ action[p] = "upload" /\ Has(p, "uploadErr")

\* C13 -- two uploads interleaved at their awaits corrupt the rollback: the
\* upload that came in second read the first one's optimistic timestamp as
\* its previous syncTime, and its rollback puts that timestamp back; after
\* both have failed the settings can hold the timestamp of a failed attempt
\* (the state C13_Witness).
C13_InterleavedRollback ==
    \A p, q \in Reqs :
        (p # q /\ FailedUpload(p) /\ FailedUpload(q) /\ updated[q] = stamp[p])
        => post[q].cache.syncTime = stamp[p]

C13_Witness ==
    \E p, q \in Reqs :
        /\ p # q /\ FailedUpload(p) /\ FailedUpload(q)
        /\ ~alone[p] /\ ~alone[q]
        /\ \A r \in Reqs : ~InFlight(r)
        /\ pre[p].cache.syncTime < stamp[p]
        /\ pre[q].cache.syncTime = stamp[p]
        /\ cache = post[q].cache
        /\ cache.syncTime = stamp[p]
        /\ cache.syncTime # pre[p].cache.syncTime

\* C14 -- a download whose migration throws answers BACKUP_FAILED and
\* leaves the store holding the downloaded blob as downloaded: overwritten,
\* not migrated, not put back.
C14_MigrationFailureLeavesOverwrite ==
    \A p \in Reqs :
        (Done(p) /\ action[p] = "download" /\ Has(p, "migrateErr"))
        => /\ res[p] = "BACKUP_FAILED"
           /\ content[p] = post[p].gist
           /\ post[p].cache = Parse(content[p])
           /\ post[p].cache.schema < SchemaVersion
           /\ post[p].cache # migrate(post[p].cache)

C14_Witness ==
    \E p \in Reqs :
        /\ Done(p) /\ action[p] = "download" /\ Has(p, "migrateErr")
        /\ pre[p].cache # post[p].cache
        /\ cache = post[p].cache

RemoteCalls(p) == Count(p, "uploadCall") + Count(p, "downloadCall")

\* no remote call follows a rejected one in the same request
NoCallAfterError(p) ==
    \A i, j \in DOMAIN log[p] :
        (log[p][i] \in {"uploadErr", "downloadErr"} /\ i < j)
        => log[p][j] \notin {"uploadCall", "downloadCall"}

\* C15 -- no automatic retry: a request makes at most one remote call (one
\* gist.upload for upload, one gist.download for download, none without
\* gistToken or for an unrecognised action), and none after a rejected one.
C15_NoRetry ==
    \A p \in Reqs :
        /\ RemoteCalls(p) <= 1
        /\ NoCallAfterError(p)
        /\ Has(p, "uploadCall") => action[p] = "upload"
        /\ Has(p, "downloadCall") => action[p] = "download"
        /\ (pc[p] = "uploading") => Count(p, "uploadCall") = 1
        /\ (pc[p] = "downloading") => Count(p, "downloadCall") = 1
        /\ Done(p) =>
            RemoteCalls(p) =
                IF pre[p].cache.gistToken # NoToken
                    /\ action[p] \in {"upload", "download"}
                    /\ ~Has(p, "readAllErr")
                THEN 1 ELSE 0

C15_Witness ==
    /\ \E p \in Reqs : FailedUpload(p) /\ Count(p, "uploadCall") = 1
    /\ \E p \in Reqs :
        /\ Done(p) /\ action[p] = "download" /\ Has(p, "downloadErr")
        /\ Count(p, "downloadCall") = 1

\* C18 -- the rollback of a failed upload writes back the whole settings
\* record the request read before its call, syncTime reset: gistToken and
\* syncTime afterwards are those of before the upload, also when a download
\* replaced the settings while the call was in flight.
C18_RollbackWritesWholeRecord ==
    \A p \in Reqs :
        FailedUpload(p)
        => /\ ReadSettings(post[p].cache) = ReadSettings(pre[p].cache)
           /\ ReadSettings(post[p].cache) = settings[p]

C18_Witness ==
    \E p, q \in Reqs :
        /\ FailedUpload(p)
        /\ Done(q) /\ action[q] = "download" /\ res[q] = "success"
        /\ pre[q].cache.syncTime = stamp[p]
        /\ pre[p].cache.syncTime # stamp[p]
        /\ ReadSettings(post[q].cache) = ReadSettings(Parse(content[q]))
        /\ ReadSettings(post[q].cache).gistToken # pre[p].cache.gistToken
        /\ post[p].cache.data = post[q].cache.data
        /\ post[p].cache.data # pre[p].cache.data
        /\ ReadSettings(post[p].cache) # ReadSettings(post[q].cache)

\* ------------------------------------------------- the specified machine
\* the state of the specified machine a request is in after the first n
\* events of its log
StateOf(p, n) ==
    IF n = 0 THEN "Idle"
    ELSE LET e == log[p][n]
             rolledBack == \E i \in 1..(n - 1) : log[p][i] = "uploadErr"
         IN  CASE e = "readSettings" ->
                    IF n = 1 THEN "CredentialCheck" ELSE "Proceed"
               [] e = "writeSettings" ->
                    IF rolledBack THEN "RolledBack" ELSE "TimestampCommitted"
               [] e \in {"readAll", "readAllErr"} -> "TimestampCommitted"
               [] e \in {"uploadCall", "downloadCall"} -> "NetworkAttempt"
               [] e \in {"uploadErr", "downloadErr", "downloadOk"} ->
                    "NetworkAttempt"
               [] e = "uploadOk" -> "Committed"
               [] e \in {"writeAll", "migrate", "migrateErr"} -> "Overwritten"
               [] e = "migrateOk" -> "Migrated"
               [] e = "success" -> "Success"
               [] e = "failed" -> IF n = 2 THEN "Fail" ELSE "Failed"
               [] OTHER -> "Unknown"

\* the transitions of the specified machine, for an action
Machine(a) ==
    {<<"Idle", "CredentialCheck">>, <<"CredentialCheck", "Fail">>,
     <<"CredentialCheck", "Proceed">>}
    \cup
    (IF a = "upload"
     THEN {<<"Proceed", "TimestampCommitted">>,
           <<"TimestampCommitted", "NetworkAttempt">>,
           <<"NetworkAttempt", "RolledBack">>, <<"RolledBack", "Failed">>,
           <<"NetworkAttempt", "Committed">>, <<"Committed", "Success">>}
     ELSE {})
    \cup
    (IF a = "download"
     THEN {<<"Proceed", "NetworkAttempt">>, <<"NetworkAttempt", "Failed">>,
           <<"NetworkAttempt", "Overwritten">>, <<"Overwritten", "Migrated">>,
           <<"Migrated", "Success">>}
     ELSE {})

\* the transitions the handler takes besides: an unrecognised action is
\* answered success right after the credential check; an upload whose blob
\* read throws fails from TimestampCommitted, without network attempt and
\* without rollback; a download whose migration throws fails from
\* Overwritten
ExtraTransitions(a) ==
    IF a = "upload" THEN {<<"TimestampCommitted", "Failed">>}
    ELSE IF a = "download" THEN {<<"Overwritten", "Failed">>}
    ELSE {<<"Proceed", "Success">>}

Terminal == {"Fail", "Failed", "Success"}

\* every step of the request's log is a transition of T (or stays in the
\* same state), and a request that is done is in a terminal state
FollowsMachine(p, T) ==
    /\ \A n \in 1..Len(log[p]) :
        \/ StateOf(p, n) = StateOf(p, n - 1)
        \/ <<StateOf(p, n - 1), StateOf(p, n)>> \in T
    /\ Done(p) <=> StateOf(p, Len(log[p])) \in Terminal

\* C16 (as stated) -- the steps of every request are a path of the
\* specified machine: Idle, CredentialCheck, then Fail or Proceed; upload:
\* Proceed, TimestampCommitted, NetworkAttempt, then RolledBack and Failed
\* or Committed and Success; download: Proceed, NetworkAttempt, then Failed
\* or Overwritten, Migrated, Success.
C16_OnlySpecifiedTransitions ==
    \A p \in Reqs : FollowsMachine(p, Machine(action[p]))

\* C16 (amended) -- the steps of every request are a path of the specified
\* machine extended with three transitions: Proceed to Success for an
\* unrecognised action, TimestampCommitted to Failed for an upload whose
\* blob read throws, Overwritten to Failed for a download whose migration
\* throws.
C16_RefinesExtendedMachine ==
    \A p \in Reqs :
        FollowsMachine(p, Machine(action[p]) \cup ExtraTransitions(action[p]))

C16_Witness ==
    /\ \E p \in Reqs :
        /\ Done(p) /\ action[p] = "download"
        /\ StateOf(p, Len(log[p])) = "Success"
        /\ \E n \in 1..Len(log[p]) : StateOf(p, n) = "Migrated"
    /\ \E p \in Reqs :
        /\ Done(p) /\ action[p] = "upload"
        /\ StateOf(p, Len(log[p])) = "Failed"
        /\ \E n \in 1..Len(log[p]) : StateOf(p, n) = "RolledBack"

\* the two ways an upload leaves the timestamp-committed state
UploadCommitted(p) ==
    /\ Done(p) /\ res[p] = "success" /\ Has(p, "uploadOk")
    /\ Count(p, "writeSettings") = 1
UploadRolledBack(p) ==
    /\ Done(p) /\ res[p] = "BACKUP_FAILED" /\ Has(p, "uploadErr")
    /\ Count(p, "writeSettings") = 2
    /\ post[p].cache.syncTime = updated[p]

\* C17 -- if every remote call that has begun eventually returns, every
\* request in flight is eventually answered; an upload whose call has begun
\* eventually either keeps the new syncTime and answers success or rolls
\* syncTime back and answers failure.
C17_EventuallyResponds ==
    /\ \A p \in Reqs : InFlight(p) ~> Done(p)
    /\ [](\A p \in Reqs : (Done(p) /\ Has(p, "uploadCall"))
                              => (UploadCommitted(p) \/ UploadRolledBack(p)))

C17_Witness ==
    /\ \E p \in Reqs : UploadRolledBack(p) /\ stamp[p] # updated[p]
    /\ \E p \in Reqs : UploadCommitted(p) /\ post[p].cache.syncTime = stamp[p]
====
